---- MODULE Spec2Model ----
(***************************************************************************)
(* A model of torchgeo/datasets/zuericrop.py: the ZueriCrop dataset        *)
(* accessor (construction, length, indexed read, plot).                    *)
(*                                                                         *)
(* Tensors and on-disk arrays are records [shape, at]: shape is the tuple  *)
(* of dimension sizes and at maps every index tuple (0-based coordinates,  *)
(* as in Python) to the stored value.                                      *)
(*                                                                         *)
(* Environment: h5py is importable (lazy_import returns), assertions are   *)
(* enabled, the three arrays of the archive hold the same number of        *)
(* series, and the archive file is replaced, if at all, between two calls. *)
(* Exceptions are named by their class; "None" stands for Python's None.   *)
(*                                                                         *)
(* Specifications: SpecTarget (the target derivation of _load_target on    *)
(* every stored sample within the bounds), SpecCtor (construction on every *)
(* content of the root), SpecImage (construction, then indexed reads),     *)
(* SpecIO (length and read calls step by step, with the archive handles),  *)
(* SpecPlot (reads, then plot of the returned sample).                     *)
(***************************************************************************)
EXTENDS Integers, Sequences, FiniteSets, TLC

(* ------------------------------ bounds --------------------------------- *)
\* largest instance id stored in gt_instance (0 is background)
MaxId == 2
\* largest class value stored in gt
MaxClass == 1
\* largest height or width of a sample
MaxSide == 2
\* largest number of channels of gt and of gt_instance
MaxChannels == 2
\* largest number of cells (H * W * channels) of one stored array
MaxCells == 4
\* longest band selection passed to the constructor
MaxBands == 2
\* number of series stored in the archive
MaxSeries == 2

(* --------------------------- tensor algebra ---------------------------- *)
Range0(n) == 0 .. (n - 1)

MaxOf(s) == CHOOSE m \in {s[i] : i \in DOMAIN s} : \A i \in DOMAIN s : s[i] <= m

\* every index tuple of a tensor of the given shape
Idx(shape) ==
    {s \in [1 .. Len(shape) -> Range0(MaxOf(shape))] :
        \A i \in 1 .. Len(shape) : s[i] < shape[i]}

\* every array of the given shape with values drawn from vals
Arrays(shape, vals) == {[shape |-> shape, at |-> f] : f \in [Idx(shape) -> vals]}

\* Tensor.permute(dims): output axis i is input axis dims[i] (dims 0-based)
permute(t, dims) ==
    LET n == Len(t.shape)
        newshape == [i \in 1 .. n |-> t.shape[dims[i] + 1]]
        old(j) == [a \in 1 .. n |-> j[CHOOSE i \in 1 .. n : dims[i] + 1 = a]]
    IN  [shape |-> newshape, at |-> [j \in Idx(newshape) |-> t.at[old(j)]]]

RECURSIVE SortedSeq(_)
\* the elements of a finite set of integers, ascending
SortedSeq(S) ==
    IF S = {} THEN << >>
    ELSE LET m == CHOOSE x \in S : \A y \in S : x <= y
         IN  <<m>> \o SortedSeq(S \ {m})

\* torch.unique of a tensor: its distinct values, sorted ascending
torch_unique(t) == SortedSeq({t.at[i] : i \in DOMAIN t.at})

\* the values of a sequence
SeqRange(s) == {s[i] : i \in DOMAIN s}

MinOf(S) == CHOOSE x \in S : \A y \in S : x <= y
MaxIn(S) == CHOOSE x \in S : \A y \in S : y <= x

(* ------------------------------- state --------------------------------- *)
VARIABLES
    fs,       \* the filenames present in the root directory
    self,     \* the accessor built by the last construction, or NoAccessor
    raised,   \* the exception that ended the last call, "None" if it returned
              \* or is still running
    calls,    \* the download_url calls made by the last construction
    archive,  \* the contents of ZueriCrop.hdf5: [data, gt, gt_instance]
    handles,  \* the modes of the h5py.File handles that are open
    pc,       \* the position of the running call, "idle" between calls
    frame,    \* the arguments and locals of the running (or last) call
    ret,      \* the value returned by the last call, NoValue while one runs
    held      \* the sample the caller keeps to plot, or NoValue

vars == <<fs, self, raised, calls, archive, handles, pc, frame, ret, held>>

NoAccessor == [kind |-> "NoAccessor"]
NoValue == [kind |-> "NoValue"]
NoFrame == [call |-> "none"]

(* ---------------------------- _load_target ----------------------------- *)
\* a variant of instance_ids_of that keeps the background id 0
instance_ids_keep_background(instance_tensor) == torch_unique(instance_tensor)

\* lines 172-174: the distinct values of the instance tensor, without 0
instance_ids_of(instance_tensor) ==
    SelectSeq(torch_unique(instance_tensor), LAMBDA v : v # 0)

\* the size two dimensions broadcast to, -1 when they do not broadcast
broadcast_dim(a, b) ==
    IF a = b THEN a ELSE IF a = 1 THEN b ELSE IF b = 1 THEN a ELSE -1

\* lines 175-176: instance_tensor == instance_ids[:, None, None], the
\* comparison of a (Ki,H,W) tensor with an (I,1,1) tensor under broadcasting
instance_masks(instance_tensor, instance_ids) ==
    LET K == instance_tensor.shape[1]
        H == instance_tensor.shape[2]
        W == instance_tensor.shape[3]
        I == Len(instance_ids)
        B == broadcast_dim(K, I)
    IN  IF B = -1
        THEN [raised |-> "RuntimeError"]
        ELSE [raised |-> "None",
              shape |-> <<B, H, W>>,
              at |-> [j \in Idx(<<B, H, W>>) |->
                        instance_tensor.at[<<IF K = 1 THEN 0 ELSE j[1], j[2], j[3]>>]
                          = instance_ids[(IF I = 1 THEN 0 ELSE j[1]) + 1]]]

\* torch.where(mask) of plane b of masks: the (row, column) pairs that are true
where_true(masks, b) ==
    {<<j[2], j[3]>> : j \in {i \in DOMAIN masks.at : i[1] = b /\ masks.at[i]}}

\* a variant of label_of that takes the last (highest) unique value
label_of_highest(mask_tensor, masks, b) ==
    IF mask_tensor.shape[1] # 1
    THEN [raised |-> "IndexError"]
    ELSE LET selected == {mask_tensor.at[<<0, p[1], p[2]>>] : p \in where_true(masks, b)}
         IN  IF selected = {}
             THEN [raised |-> "IndexError"]
             ELSE [raised |-> "None", value |-> MaxIn(selected)]

\* lines 181-182: mask_tensor[mask[None, :, :]] then torch.unique(...)[0].
\* A boolean index must have the shape of the dimensions it indexes, so a
\* (1,H,W) index on a (Kc,H,W) tensor with Kc # 1 is an IndexError; element 0
\* of the unique values of an empty selection is an IndexError too.
label_of(mask_tensor, masks, b) ==
    IF mask_tensor.shape[1] # 1
    THEN [raised |-> "IndexError"]
    ELSE LET selected == {mask_tensor.at[<<0, p[1], p[2]>>] : p \in where_true(masks, b)}
         IN  IF selected = {}
             THEN [raised |-> "IndexError"]
             ELSE [raised |-> "None", value |-> SortedSeq(selected)[1]]

\* a variant of bounding_box that reads pos[0] as columns and pos[1] as rows
bounding_box_swapped(masks, b) ==
    LET pos == where_true(masks, b)
    IN  IF pos = {}
        THEN [raised |-> "RuntimeError"]
        ELSE [raised |-> "None",
              value |-> <<MinOf({p[1] : p \in pos}), MinOf({p[2] : p \in pos}),
                          MaxIn({p[1] : p \in pos}), MaxIn({p[2] : p \in pos})>>]

\* lines 188-193: pos = torch.where(mask); pos[0] are rows, pos[1] columns;
\* torch.min / torch.max of an empty tensor is a RuntimeError
bounding_box(masks, b) ==
    LET pos == where_true(masks, b)
    IN  IF pos = {}
        THEN [raised |-> "RuntimeError"]
        ELSE [raised |-> "None",
              value |-> <<MinOf({p[2] : p \in pos}), MinOf({p[1] : p \in pos}),
                          MaxIn({p[2] : p \in pos}), MaxIn({p[1] : p \in pos})>>]

\* lines 164-199 of _load_target, from the two arrays read from the archive.
\* The label loop (180-183) runs over every mask before the box loop
\* (187-193) starts; the first failing iteration ends the call.
\* masks.to(uint8) maps False/True to 0/1; boxes.to(float) and
\* labels.to(long) keep the (small, integral) values.
_load_target(mask_array, instance_array) ==
    LET mask_tensor == permute(mask_array, <<2, 0, 1>>)
        instance_tensor == permute(instance_array, <<2, 0, 1>>)
        instance_ids == instance_ids_of(instance_tensor)
        masks == instance_masks(instance_tensor, instance_ids)
    IN  IF masks.raised # "None"
        THEN [raised |-> masks.raised, line |-> 176]
        ELSE
        LET B == masks.shape[1]
            labels_list == [b \in 1 .. B |-> label_of(mask_tensor, masks, b - 1)]
            boxes_list == [b \in 1 .. B |-> bounding_box(masks, b - 1)]
        IN  IF \E b \in 1 .. B : labels_list[b].raised # "None"
            THEN [raised |-> "IndexError", line |-> 182]
            ELSE IF \E b \in 1 .. B : boxes_list[b].raised # "None"
            THEN [raised |-> "RuntimeError", line |-> 189]
            ELSE [raised |-> "None",
                  mask |-> [shape |-> masks.shape,
                            at |-> [j \in DOMAIN masks.at |->
                                      IF masks.at[j] THEN 1 ELSE 0]],
                  bbox_xyxy |-> [b \in 1 .. B |-> boxes_list[b].value],
                  label |-> [b \in 1 .. B |-> labels_list[b].value]]

(* ------------- specification of the target derivation ------------------ *)
\* the (H, W, Kc, Ki) a stored sample can have within the bounds
TargetShapes ==
    {s \in (1 .. MaxSide) \X (1 .. MaxSide) \X (1 .. MaxChannels) \X (1 .. MaxChannels) :
        /\ s[1] * s[2] * s[3] <= MaxCells
        /\ s[1] * s[2] * s[4] <= MaxCells}

\* a one-pixel, one-band image series: the data array of a one-series archive
UnitData == [shape |-> <<1, 1, 1, 1>>, at |-> [i \in Idx(<<1, 1, 1, 1>>) |-> 0]]

InitTarget ==
    /\ fs = {}
    /\ self = NoAccessor
    /\ raised = "None"
    /\ calls = << >>
    /\ \E s \in TargetShapes :
         \E g \in Arrays(<<s[1], s[2], s[3]>>, 0 .. MaxClass) :
           \E gi \in Arrays(<<s[1], s[2], s[4]>>, 0 .. MaxId) :
             archive = [data |-> <<UnitData>>, gt |-> <<g>>, gt_instance |-> <<gi>>]
    /\ handles = << >>
    /\ pc = "idle"
    /\ frame = NoFrame
    /\ ret = NoValue
    /\ held = NoValue

\* _load_target(index) on series 0 of the archive
LoadTarget ==
    /\ pc = "idle"
    /\ frame = NoFrame
    /\ LET r == _load_target(archive.gt[1], archive.gt_instance[1])
       IN  /\ raised' = r.raised
           /\ ret' = r
    /\ frame' = [call |-> "_load_target", index |-> 0]
    /\ UNCHANGED <<fs, self, calls, archive, handles, pc, held>>

NextTarget == LoadTarget

SpecTarget == InitTarget /\ [][NextTarget]_vars

(* ----------------- properties of the target derivation ----------------- *)
TargetReturned == frame.call = "_load_target" /\ raised = "None"

\* the stored arrays of series 0
StoredGt == archive.gt[1]
StoredInstance == archive.gt_instance[1]

\* the nonzero values stored in the instance array
NonzeroIds ==
    {StoredInstance.at[i] : i \in DOMAIN StoredInstance.at} \ {0}

\* the (row, column) pairs at which plane b (0-based) of the returned mask is 1
TruePixels(b) ==
    {<<j[2], j[3]>> : j \in {i \in DOMAIN ret.mask.at : i[1] = b /\ ret.mask.at[i] = 1}}

\* C1: with a single instance-id channel, the returned mask has one plane
\* per distinct nonzero instance id, in ascending id order; plane i is 1
\* exactly where the instance array equals the i-th id and 0 elsewhere, and
\* the background id 0 has no plane. With a single class channel as well the
\* call returns.
C1_OneMaskPerInstanceId ==
    (frame.call = "_load_target" /\ StoredInstance.shape[3] = 1) =>
        /\ StoredGt.shape[3] = 1 => raised = "None"
        /\ raised = "None" =>
             /\ ret.mask.shape =
                  <<Cardinality(NonzeroIds), StoredInstance.shape[1], StoredInstance.shape[2]>>
             /\ \A v \in NonzeroIds :
                  LET i == Cardinality({u \in NonzeroIds : u < v})
                  IN  \A h \in Range0(StoredInstance.shape[1]) :
                        \A w \in Range0(StoredInstance.shape[2]) :
                          ret.mask.at[<<i, h, w>>] =
                            IF StoredInstance.at[<<h, w, 0>>] = v THEN 1 ELSE 0

\* a returned target for a single-channel instance array that holds the
\* background and the ids 1 and 2
C1_Witness ==
    /\ TargetReturned
    /\ StoredInstance.shape[3] = 1
    /\ {StoredInstance.at[i] : i \in DOMAIN StoredInstance.at} = {0, 1, 2}
    /\ ret.mask.shape[1] = 2

\* C2: the call never takes min/max of an empty coordinate set (line 189 is
\* never the line that raises); every returned mask has a true pixel, and
\* its box is (min column, min row, max column, max row) of its true
\* pixels: the box is ordered, contains every true pixel and is tight.
C2_BoxesBoundNonEmptyMasks ==
    frame.call = "_load_target" =>
        /\ raised # "None" => ret.line # 189
        /\ raised = "None" =>
             /\ Len(ret.bbox_xyxy) = ret.mask.shape[1]
             /\ \A b \in 1 .. ret.mask.shape[1] :
                  LET px == TruePixels(b - 1)
                      box == ret.bbox_xyxy[b]
                  IN  /\ px # {}
                      /\ box[1] <= box[3]
                      /\ box[2] <= box[4]
                      /\ \A p \in px : box[1] <= p[2] /\ p[2] <= box[3]
                                       /\ box[2] <= p[1] /\ p[1] <= box[4]
                      /\ \E p \in px : p[2] = box[1]
                      /\ \E p \in px : p[2] = box[3]
                      /\ \E p \in px : p[1] = box[2]
                      /\ \E p \in px : p[1] = box[4]

\* a returned mask whose true pixels span one row and two columns, so that
\* the box tells columns from rows
C2_Witness ==
    /\ TargetReturned
    /\ \E b \in 1 .. ret.mask.shape[1] :
         /\ TruePixels(b - 1) = {<<0, 0>>, <<0, 1>>}
         /\ ret.bbox_xyxy[b] = <<0, 0, 1, 0>>

\* C9: the label vector has one entry per returned mask, in the order of
\* the masks and boxes, and each label is the lowest class value stored in
\* the class array at the pixels where its mask is true.
C9_LabelIsLowestClass ==
    TargetReturned =>
        /\ Len(ret.label) = ret.mask.shape[1]
        /\ Len(ret.label) = Len(ret.bbox_xyxy)
        /\ \A b \in 1 .. ret.mask.shape[1] :
             LET found == {StoredGt.at[<<p[1], p[2], c>>] :
                             p \in TruePixels(b - 1), c \in Range0(StoredGt.shape[3])}
             IN  /\ ret.label[b] \in found
                 /\ \A x \in found : ret.label[b] <= x

\* a returned mask that covers pixels of two class values, labelled with the
\* lower one
C9_Witness ==
    /\ TargetReturned
    /\ \E b \in 1 .. ret.mask.shape[1] :
         /\ {StoredGt.at[<<p[1], p[2], 0>>] : p \in TruePixels(b - 1)} = {0, 1}
         /\ ret.label[b] = 0

(* --------------------------- class attributes -------------------------- *)
url == "https://hf.co/datasets/torchgeo/zuericrop/resolve/8ac0f416fbaab032d8670cc55f984b9f079e86b2/"
md5s == <<"1635231df67f3d25f4f1e62c98e221a4", "5118398c7a5bbc246f5f6bb35d8d529b">>
filenames == <<"ZueriCrop.hdf5", "labels.csv">>
band_names == <<"NIR", "B03", "B02", "B04", "B05", "B06", "B07", "B11", "B12">>
rgb_bands == <<"B04", "B03", "B02">>

\* band names a caller may pass that are not among band_names
OtherNames == {"B01", "B08"}
\* the root directory the accessors are built on
Root == "data"

\* tuple.index(x): the 0-based position of the first occurrence
index(seq, x) ==
    (CHOOSE i \in 1 .. Len(seq) : seq[i] = x /\ \A j \in 1 .. (i - 1) : seq[j] # x) - 1

\* os.path.join of a directory and a name, kept as the pair
path_join(dir, name) == <<dir, name>>

RECURSIVE SeqsUpTo(_, _)
\* the sequences over S of length at most n
SeqsUpTo(S, n) ==
    IF n = 0 THEN {<< >>}
    ELSE LET shorter == SeqsUpTo(S, n - 1)
         IN  shorter \cup {Append(q, x) : q \in shorter, x \in S}

\* a bands argument: a sequence of names, or a value that is no Sequence
Bands(items) == [is_sequence |-> TRUE, items |-> items]
NotASequence == [is_sequence |-> FALSE, items |-> << >>]

(* --------------------------- _validate_bands --------------------------- *)
\* a variant of _validate_bands that raises TypeError for a non-sequence
_validate_bands_type_error(bands) ==
    IF ~bands.is_sequence
    THEN [raised |-> "TypeError", args |-> <<"'bands' must be a sequence">>]
    ELSE IF \E i \in 1 .. Len(bands.items) : bands.items[i] \notin SeqRange(band_names)
    THEN LET first == CHOOSE i \in 1 .. Len(bands.items) :
                        /\ bands.items[i] \notin SeqRange(band_names)
                        /\ \A j \in 1 .. (i - 1) : bands.items[j] \in SeqRange(band_names)
         IN  [raised |-> "ValueError",
              args |-> <<"'", bands.items[first], "' is an invalid band name.">>]
    ELSE [raised |-> "None"]

\* a variant of _validate_bands whose message names the last band passed
_validate_bands_names_last(bands) ==
    IF ~bands.is_sequence
    THEN [raised |-> "AssertionError", args |-> <<"'bands' must be a sequence">>]
    ELSE IF \E i \in 1 .. Len(bands.items) : bands.items[i] \notin SeqRange(band_names)
    THEN [raised |-> "ValueError",
          args |-> <<"'", bands.items[Len(bands.items)], "' is an invalid band name.">>]
    ELSE [raised |-> "None"]

\* lines 243-246. The assert is the default interpreter's (assertions on).
_validate_bands(bands) ==
    IF ~bands.is_sequence
    THEN [raised |-> "AssertionError", args |-> <<"'bands' must be a sequence">>]
    ELSE IF \E i \in 1 .. Len(bands.items) : bands.items[i] \notin SeqRange(band_names)
    THEN LET first == CHOOSE i \in 1 .. Len(bands.items) :
                        /\ bands.items[i] \notin SeqRange(band_names)
                        /\ \A j \in 1 .. (i - 1) : bands.items[j] \in SeqRange(band_names)
         IN  [raised |-> "ValueError",
              args |-> <<"'", bands.items[first], "' is an invalid band name.">>]
    ELSE [raised |-> "None"]

(* ------------------------------ download_url --------------------------- *)
\* what the remote end delivers to one download_url call
DownloadOutcomes == {"intact", "corrupt", "unreachable"}

\* utils.download_url(url, root, filename=, md5=): fetches the file into
\* root; a network error propagates and leaves no file; with an md5 given a
\* file that does not match it is an error (the fetched file stays on disk)
download_url(files, link, root, filename, md5, outcome) ==
    IF outcome = "unreachable"
    THEN [raised |-> "URLError", fs |-> files]
    ELSE IF outcome = "corrupt" /\ md5 # "None"
    THEN [raised |-> "RuntimeError", fs |-> files \cup {filename}]
    ELSE [raised |-> "None", fs |-> files \cup {filename}]

(* ------------------------------- _download ----------------------------- *)
\* a variant of download_call that passes the md5 whatever the checksum flag
download_call_always_md5(i, checksum) ==
    [url |-> <<url, filenames[i]>>,
     root |-> Root,
     filename |-> filenames[i],
     md5 |-> md5s[i]]

\* the download_url call _download makes for file i (lines 224-229)
download_call(i, checksum) ==
    [url |-> <<url, filenames[i]>>,
     root |-> Root,
     filename |-> filenames[i],
     md5 |-> IF checksum THEN md5s[i] ELSE "None"]

RECURSIVE download_from(_, _, _, _, _)
\* lines 221-229 from file i on: a file that exists is skipped, a missing
\* one is fetched; the first download that raises ends the loop
download_from(i, files, checksum, outcomes, made) ==
    IF i > Len(filenames)
    THEN [raised |-> "None", fs |-> files, calls |-> made]
    ELSE IF filenames[i] \in files
    THEN download_from(i + 1, files, checksum, outcomes, made)
    ELSE LET c == download_call(i, checksum)
             r == download_url(files, c.url, c.root, c.filename, c.md5, outcomes[i])
         IN  IF r.raised # "None"
             THEN [raised |-> r.raised, fs |-> r.fs, calls |-> Append(made, c)]
             ELSE download_from(i + 1, r.fs, checksum, outcomes, Append(made, c))

\* lines 219-229
_download(files, checksum, outcomes) == download_from(1, files, checksum, outcomes, << >>)

(* -------------------------------- _verify ------------------------------ *)
\* lines 204-207: whether each required file exists
exists_list(files) == [i \in 1 .. Len(filenames) |-> filenames[i] \in files]

\* a variant of _verify that is satisfied when any required file exists
_verify_any(files, download, checksum, outcomes) ==
    LET exists == exists_list(files)
    IN  IF \E i \in 1 .. Len(exists) : exists[i]
        THEN [raised |-> "None", fs |-> files, calls |-> << >>, exists |-> exists]
        ELSE IF ~download
        THEN [raised |-> "DatasetNotFoundError", fs |-> files, calls |-> << >>,
              exists |-> exists]
        ELSE LET d == _download(files, checksum, outcomes)
             IN  [raised |-> d.raised, fs |-> d.fs, calls |-> d.calls, exists |-> exists]

\* lines 201-217
_verify(files, download, checksum, outcomes) ==
    LET exists == exists_list(files)
    IN  IF \A i \in 1 .. Len(exists) : exists[i]
        THEN [raised |-> "None", fs |-> files, calls |-> << >>, exists |-> exists]
        ELSE IF ~download
        THEN [raised |-> "DatasetNotFoundError", fs |-> files, calls |-> << >>,
              exists |-> exists]
        ELSE LET d == _download(files, checksum, outcomes)
             IN  [raised |-> d.raised, fs |-> d.fs, calls |-> d.calls, exists |-> exists]

(* -------------------------------- __init__ ----------------------------- *)
\* a variant of band_indices_of that sorts the positions
band_indices_sorted(bands) == SortedSeq({index(band_names, bands[j]) : j \in 1 .. Len(bands)})

\* lines 87-89: the position of every selected band in band_names
band_indices_of(bands) == [j \in 1 .. Len(bands) |-> index(band_names, bands[j])]

\* lines 84-98, with h5py importable (lazy_import returns). The result holds
\* the exception that ended the constructor ("None": it returned), the
\* accessor (none when the constructor raised: the caller is handed no
\* object), the files now in root, the download_url calls made and the
\* exists list of _verify.
__init__(files, bands, transforms, download, checksum, outcomes) ==
    LET v == _validate_bands(bands)
    IN  IF v.raised # "None"
        THEN [raised |-> v.raised, args |-> v.args, self |-> NoAccessor,
              fs |-> files, calls |-> << >>, exists |-> << >>]
        ELSE
        LET obj == [band_indices |-> band_indices_of(bands.items),
                    root |-> Root,
                    bands |-> bands.items,
                    transforms |-> transforms,
                    download |-> download,
                    checksum |-> checksum,
                    filepath |-> path_join(Root, "ZueriCrop.hdf5")]
            r == _verify(files, download, checksum, outcomes)
        IN  [raised |-> r.raised, args |-> << >>,
             self |-> IF r.raised = "None" THEN obj ELSE NoAccessor,
             fs |-> r.fs, calls |-> r.calls, exists |-> r.exists]

(* ----------------- specification of the construction ------------------- *)
AllNames == SeqRange(band_names) \cup OtherNames
BandArgs == {Bands(q) : q \in SeqsUpTo(AllNames, MaxBands)} \cup {NotASequence}
TransformArgs == {"None", "transform"}
FilenameSet == SeqRange(filenames)

\* an archive of one series with a one-pixel sample without instances
UnitArchive ==
    [data |-> <<UnitData>>,
     gt |-> <<[shape |-> <<1, 1, 1>>, at |-> [i \in Idx(<<1, 1, 1>>) |-> 0]]>>,
     gt_instance |-> <<[shape |-> <<1, 1, 1>>, at |-> [i \in Idx(<<1, 1, 1>>) |-> 0]]>>]

InitCtor ==
    /\ fs \in SUBSET FilenameSet
    /\ self = NoAccessor
    /\ raised = "None"
    /\ calls = << >>
    /\ archive = UnitArchive
    /\ handles = << >>
    /\ pc = "idle"
    /\ frame = NoFrame
    /\ ret = NoValue
    /\ held = NoValue

\* what the remote end delivers to the download of each file
OutcomeArgs == [1 .. Len(filenames) -> DownloadOutcomes]
\* with download disabled no download is reached: the remote end is idle
Unreached == [i \in 1 .. Len(filenames) |-> "unreachable"]

\* ZueriCrop(Root, bands, transforms, download, checksum) with the arguments
\* and the behaviour of the remote end drawn from the given sets
ConstructWith(bandArgs, transformArgs, downloadArgs, checksumArgs, outcomeArgs) ==
    /\ pc = "idle"
    /\ \E bands \in bandArgs, transforms \in transformArgs,
          download \in downloadArgs, checksum \in checksumArgs,
          outcomes \in outcomeArgs :
         LET r == __init__(fs, bands, transforms, download, checksum, outcomes)
         IN  /\ fs' = r.fs
             /\ self' = r.self
             /\ raised' = r.raised
             /\ calls' = r.calls
             /\ ret' = [args |-> r.args]
             /\ frame' = [call |-> "__init__", bands |-> bands,
                          download |-> download, checksum |-> checksum,
                          exists |-> r.exists]
    /\ UNCHANGED <<archive, handles, pc, held>>

\* the first construction on the root: any arguments
Construct ==
    /\ frame = NoFrame
    /\ ConstructWith(BandArgs, TransformArgs, BOOLEAN, BOOLEAN, OutcomeArgs)

\* a later construction on the same root, with the default bands and
\* download disabled
ConstructAgain ==
    /\ frame # NoFrame
    /\ ConstructWith({Bands(band_names)}, {"None"}, {FALSE}, BOOLEAN, {Unreached})

NextCtor == Construct \/ ConstructAgain

SpecCtor == InitCtor /\ [][NextCtor]_vars

(* -------------------- properties of the construction ------------------- *)
CtorDone == frame.call = "__init__"

\* the bands argument is a sequence of names that are all in band_names
ValidBands(bands) ==
    /\ bands.is_sequence
    /\ \A i \in 1 .. Len(bands.items) : bands.items[i] \in SeqRange(band_names)

\* some required file was absent when _verify looked
SomeMissing == \E i \in 1 .. Len(frame.exists) : ~frame.exists[i]

\* C4: a band sequence with a name outside band_names ends the construction
\* with a ValueError whose message names the (first) offending band, and no
\* accessor is produced; a sequence of names of band_names passes validation.
C4_InvalidBandRejected ==
    (CtorDone /\ frame.bands.is_sequence) =>
        LET items == frame.bands.items
            bad == {i \in 1 .. Len(items) : items[i] \notin SeqRange(band_names)}
        IN  /\ bad # {} =>
                 /\ raised = "ValueError"
                 /\ ret.args = <<"'", items[MinOf(bad)], "' is an invalid band name.">>
                 /\ self = NoAccessor
                 /\ calls = << >>
            /\ bad = {} => raised \notin {"ValueError", "AssertionError", "TypeError"}

\* a construction rejected for its second band, the first being valid
C4_Witness ==
    /\ CtorDone
    /\ raised = "ValueError"
    /\ Len(frame.bands.items) = 2
    /\ frame.bands.items[1] \in SeqRange(band_names)
    /\ ret.args[2] = frame.bands.items[2]

\* C5 as stated: a bands argument that is not a sequence ends the
\* construction with a TypeError.
C5_NonSequenceIsTypeError ==
    (CtorDone /\ ~frame.bands.is_sequence) => raised = "TypeError"

\* C5 as amended: a bands argument that is not a sequence ends the
\* construction with the AssertionError of the isinstance assertion, before
\* any file is looked for or fetched, and no accessor is produced.
C5_NonSequenceIsAssertionError ==
    (CtorDone /\ ~frame.bands.is_sequence) =>
        /\ raised = "AssertionError"
        /\ self = NoAccessor
        /\ calls = << >>
        /\ frame.exists = << >>

\* a construction with a bands argument that is not a sequence
C5_Witness ==
    /\ CtorDone
    /\ ~frame.bands.is_sequence
    /\ raised = "AssertionError"

\* C6: with valid bands the construction ends with DatasetNotFoundError
\* exactly when a required file is absent and download is disabled, and
\* then nothing is downloaded; with both files present it succeeds without
\* a download, whatever the download and checksum flags.
C6_NotFoundIffMissingAndNoDownload ==
    (CtorDone /\ ValidBands(frame.bands)) =>
        /\ raised = "DatasetNotFoundError" <=> (SomeMissing /\ ~frame.download)
        /\ raised = "DatasetNotFoundError" => (calls = << >> /\ self = NoAccessor)
        /\ ~SomeMissing => (raised = "None" /\ calls = << >> /\ self # NoAccessor)

\* a construction that found the label table absent with download disabled
C6_Witness ==
    /\ CtorDone
    /\ ValidBands(frame.bands)
    /\ frame.exists = <<TRUE, FALSE>>
    /\ ~frame.download
    /\ raised = "DatasetNotFoundError"

\* the download_url call for file i with the url, root and filename of the
\* class attributes and the md5 of file i exactly when checksum is set
ExpectedCall(i) ==
    [url |-> <<url, filenames[i]>>, root |-> Root, filename |-> filenames[i],
     md5 |-> IF frame.checksum THEN md5s[i] ELSE "None"]

\* a later construction on the root as it is now, download disabled or not,
\* returns without a download
LaterConstructionSucceeds ==
    \A bands \in {frame.bands, Bands(band_names)}, download \in BOOLEAN, checksum \in BOOLEAN :
        LET r == __init__(fs, bands, "None", download, checksum, Unreached)
        IN  r.raised = "None" /\ r.calls = << >> /\ r.self # NoAccessor

\* C7 as stated: a construction that finds a required file missing with
\* download enabled, and succeeds, has fetched both files, each from
\* url + filename with its md5 exactly when checksum is set; both files are
\* then present and a later construction succeeds.
C7_FetchesBothFiles ==
    (CtorDone /\ ValidBands(frame.bands) /\ SomeMissing /\ frame.download
        /\ raised = "None") =>
        /\ calls = [i \in 1 .. Len(filenames) |-> ExpectedCall(i)]
        /\ FilenameSet \subseteq fs
        /\ LaterConstructionSucceeds

\* C7 as amended: such a construction fetches the required files that are
\* absent (both only when both are absent), in the order of filenames and
\* up to the first download that fails, each from url + filename with its
\* md5 exactly when checksum is set; when it succeeds every absent file was
\* fetched, both files are present and a later construction succeeds.
C7_FetchesMissingFiles ==
    (CtorDone /\ ValidBands(frame.bands) /\ SomeMissing /\ frame.download) =>
        LET missing == SortedSeq({i \in 1 .. Len(filenames) : ~frame.exists[i]})
        IN  /\ Len(calls) <= Len(missing)
            /\ Len(calls) >= 1
            /\ \A k \in 1 .. Len(calls) : calls[k] = ExpectedCall(missing[k])
            /\ raised = "None" =>
                 /\ Len(calls) = Len(missing)
                 /\ FilenameSet \subseteq fs
                 /\ LaterConstructionSucceeds

\* a successful construction that found only the label table absent and
\* fetched it with its md5
C7_Witness ==
    /\ CtorDone
    /\ ValidBands(frame.bands)
    /\ frame.exists = <<TRUE, FALSE>>
    /\ frame.download /\ frame.checksum
    /\ raised = "None"
    /\ Len(calls) = 1
    /\ calls[1].md5 = md5s[2]
    /\ fs = FilenameSet

(* ----------------------------- _load_image ----------------------------- *)
\* torch.index_select(t, dim, index): along dim (0-based), entry j of the
\* output is entry index[j] of the input
index_select(t, dim, idx) ==
    LET n == Len(t.shape)
        newshape == [i \in 1 .. n |-> IF i = dim + 1 THEN Len(idx) ELSE t.shape[i]]
    IN  [shape |-> newshape,
         at |-> [j \in Idx(newshape) |->
                   t.at[[a \in 1 .. n |-> IF a = dim + 1 THEN idx[j[a] + 1] ELSE j[a]]]]]

\* lines 143-147: TxHxWxC to TxCxHxW, then the selected bands
_load_image(array, band_indices) ==
    index_select(permute(array, <<0, 3, 1, 2>>), 1, band_indices)

(* --------------------------- archive access ---------------------------- *)
\* dataset[index, ...] of an h5py dataset: an index past the first dimension
\* is an IndexError
h5_read(dataset, i) ==
    IF i < Len(dataset)
    THEN [raised |-> "None", value |-> dataset[i + 1]]
    ELSE [raised |-> "IndexError"]

\* a variant of with_exit that leaves the handle open
with_exit_leak(open) == open

\* the exit of a with h5py.File(...) block: the handle opened last is closed
with_exit(open) == SubSeq(open, 1, Len(open) - 1)

\* the outcomes of calling the caller's transform on a sample
TransformOutcomes == {"returns", "raises"}

\* lines 112-117: the sample, passed through the transform when there is one
make_sample(image, target, transforms, outcome) ==
    LET sample == [image |-> image, mask |-> target.mask,
                   bbox_xyxy |-> target.bbox_xyxy, label |-> target.label]
    IN  IF transforms = "None"
        THEN [raised |-> "None", value |-> sample]
        ELSE IF outcome = "raises"
        THEN [raised |-> "TransformError", value |-> NoValue]
        ELSE [raised |-> "None", value |-> [transformed |-> sample]]

(* ------------------------------ __getitem__ ---------------------------- *)
\* dataset[index]: the call starts (line 109)
GetItem ==
    /\ pc = "idle"
    /\ self # NoAccessor
    /\ \E i \in 0 .. MaxSeries :
         frame' = [call |-> "__getitem__", index |-> i, exc |-> "None",
                   array |-> NoValue, image |-> NoValue,
                   mask_array |-> NoValue, instance_array |-> NoValue]
    /\ pc' = "image_open"
    /\ raised' = "None"
    /\ ret' = NoValue
    /\ UNCHANGED <<fs, self, calls, archive, handles, held>>

\* line 140: with h5py.File(self.filepath, 'r') as f
ImageOpen ==
    /\ pc = "image_open"
    /\ handles' = Append(handles, "r")
    /\ pc' = "image_read"
    /\ UNCHANGED <<fs, self, raised, calls, archive, frame, ret, held>>

\* line 141: array = f['data'][index, ...]
ImageRead ==
    /\ pc = "image_read"
    /\ LET r == h5_read(archive.data, frame.index)
       IN  frame' = IF r.raised = "None"
                    THEN [frame EXCEPT !.array = r.value]
                    ELSE [frame EXCEPT !.exc = r.raised]
    /\ pc' = "image_exit"
    /\ UNCHANGED <<fs, self, raised, calls, archive, handles, ret, held>>

\* the end of the with block of _load_image, then lines 143-147
ImageExit ==
    /\ pc = "image_exit"
    /\ handles' = with_exit(handles)
    /\ IF frame.exc # "None"
       THEN /\ raised' = frame.exc
            /\ ret' = NoValue
            /\ pc' = "idle"
            /\ frame' = frame
       ELSE /\ frame' = [frame EXCEPT !.image = _load_image(frame.array, self.band_indices)]
            /\ pc' = "target_open"
            /\ UNCHANGED <<raised, ret>>
    /\ UNCHANGED <<fs, self, calls, archive, held>>

\* line 160: with h5py.File(self.filepath, 'r') as f
TargetOpen ==
    /\ pc = "target_open"
    /\ handles' = Append(handles, "r")
    /\ pc' = "target_read"
    /\ UNCHANGED <<fs, self, raised, calls, archive, frame, ret, held>>

\* lines 161-162: mask_array = f['gt'][index, ...] and
\* instance_array = f['gt_instance'][index, ...]
TargetRead ==
    /\ pc = "target_read"
    /\ LET g == h5_read(archive.gt, frame.index)
           gi == h5_read(archive.gt_instance, frame.index)
       IN  frame' = IF g.raised # "None" THEN [frame EXCEPT !.exc = g.raised]
                    ELSE IF gi.raised # "None" THEN [frame EXCEPT !.exc = gi.raised]
                    ELSE [frame EXCEPT !.mask_array = g.value,
                                       !.instance_array = gi.value]
    /\ pc' = "target_exit"
    /\ UNCHANGED <<fs, self, raised, calls, archive, handles, ret, held>>

\* the end of the with block of _load_target, then lines 164-199 and
\* 112-117: the target is derived, the sample assembled, transformed and
\* returned
TargetExit ==
    /\ pc = "target_exit"
    /\ handles' = with_exit(handles)
    /\ pc' = "idle"
    /\ frame' = frame
    /\ IF frame.exc # "None"
       THEN raised' = frame.exc /\ ret' = NoValue
       ELSE LET target == _load_target(frame.mask_array, frame.instance_array)
            IN  IF target.raised # "None"
                THEN raised' = target.raised /\ ret' = NoValue
                ELSE \E outcome \in TransformOutcomes :
                       LET r == make_sample(frame.image, target, self.transforms, outcome)
                       IN  raised' = r.raised /\ ret' = r.value
    /\ UNCHANGED <<fs, self, calls, archive, held>>

(* --------------- specification of the image loading -------------------- *)
\* the TxHxWxC array of series n whose cells hold pairwise distinct values
\* (distinct across the series too)
DataArray(n, T, H, W) ==
    LET C == Len(band_names)
    IN  [shape |-> <<T, H, W, C>>,
         at |-> [i \in Idx(<<T, H, W, C>>) |->
                   (((n * T + i[1]) * H + i[2]) * W + i[3]) * C + i[4]]]

\* the (T, H, W) of a stored series within the bounds
ImageShapes ==
    {s \in (1 .. MaxSide) \X (1 .. MaxSide) \X (1 .. MaxSide) :
        s[1] * s[2] * s[3] <= MaxCells}

\* a class or instance sample of one pixel holding v
UnitTarget(v) == [shape |-> <<1, 1, 1>>, at |-> [i \in Idx(<<1, 1, 1>>) |-> v]]

InitImage ==
    /\ fs = FilenameSet
    /\ self = NoAccessor
    /\ raised = "None"
    /\ calls = << >>
    /\ \E s \in ImageShapes :
         archive = [data |-> [n \in 1 .. MaxSeries |-> DataArray(n - 1, s[1], s[2], s[3])],
                    gt |-> [n \in 1 .. MaxSeries |-> UnitTarget(0)],
                    gt_instance |-> [n \in 1 .. MaxSeries |-> UnitTarget(1)]]
    /\ handles = << >>
    /\ pc = "idle"
    /\ frame = NoFrame
    /\ ret = NoValue
    /\ held = NoValue

\* the construction of the accessor on a root that holds both files
ConstructImage ==
    /\ frame = NoFrame
    /\ ConstructWith(BandArgs, {"None"}, {FALSE}, {FALSE}, {Unreached})

NextImage ==
    \/ ConstructImage
    \/ GetItem
    \/ ImageOpen
    \/ ImageRead
    \/ ImageExit
    \/ TargetOpen
    \/ TargetRead
    \/ TargetExit

SpecImage == InitImage /\ [][NextImage]_vars

(* ------------------- properties of the image loading ------------------- *)
GetItemReturned == frame.call = "__getitem__" /\ pc = "idle" /\ raised = "None"

\* C3: the band-index list has the length and order of the band subset,
\* entry j being the position of the j-th selected band in band_names; the
\* image a read returns has one channel per selected band, channel j being
\* on-disk channel band_indices[j] at every time step and pixel.
C3_BandsSelectChannels ==
    self # NoAccessor =>
        /\ Len(self.band_indices) = Len(self.bands)
        /\ \A j \in 1 .. Len(self.bands) :
             /\ self.band_indices[j] \in Range0(Len(band_names))
             /\ band_names[self.band_indices[j] + 1] = self.bands[j]
        /\ (GetItemReturned /\ self.transforms = "None") =>
             LET stored == archive.data[frame.index + 1]
                 T == stored.shape[1]
                 H == stored.shape[2]
                 W == stored.shape[3]
             IN  /\ ret.image.shape = <<T, Len(self.bands), H, W>>
                 /\ \A t \in Range0(T), j \in 1 .. Len(self.bands),
                       h \in Range0(H), w \in Range0(W) :
                      ret.image.at[<<t, j - 1, h, w>>] =
                        stored.at[<<t, h, w, self.band_indices[j]>>]

\* a returned read of an accessor whose two bands are not in on-disk order,
\* from a series with more than one time step and column
C3_Witness ==
    /\ GetItemReturned
    /\ self.bands = <<"B04", "B02">>
    /\ ret.image.shape[2] = 2
    /\ ret.image.shape[1] = 2
    /\ ret.image.shape[4] = 2

(* -------------------------------- __len__ ------------------------------ *)
\* len(dataset): the call starts (line 125)
LenCall ==
    /\ pc = "idle"
    /\ self # NoAccessor
    /\ frame' = [call |-> "__len__", length |-> NoValue]
    /\ pc' = "len_open"
    /\ raised' = "None"
    /\ ret' = NoValue
    /\ UNCHANGED <<fs, self, calls, archive, handles, held>>

\* line 126: with h5py.File(self.filepath, 'r') as f
LenOpen ==
    /\ pc = "len_open"
    /\ handles' = Append(handles, "r")
    /\ pc' = "len_read"
    /\ UNCHANGED <<fs, self, raised, calls, archive, frame, ret, held>>

\* line 127: length = f['data'].shape[0]
LenRead ==
    /\ pc = "len_read"
    /\ frame' = [frame EXCEPT !.length = Len(archive.data)]
    /\ pc' = "len_exit"
    /\ UNCHANGED <<fs, self, raised, calls, archive, handles, ret, held>>

\* the end of the with block of __len__, then line 128
LenExit ==
    /\ pc = "len_exit"
    /\ handles' = with_exit(handles)
    /\ ret' = frame.length
    /\ pc' = "idle"
    /\ UNCHANGED <<fs, self, raised, calls, archive, frame, held>>

(* ------------- specification of the archive accesses ------------------- *)
\* an archive of n one-pixel series; k varies the stored values
SmallArchive(n, k) ==
    [data |-> [i \in 1 .. n |-> DataArray(i - 1 + k, 1, 1, 1)],
     gt |-> [i \in 1 .. n |-> UnitTarget(k)],
     gt_instance |-> [i \in 1 .. n |-> UnitTarget((i + k) % 2)]]

SmallArchives == {SmallArchive(n, k) : n \in 0 .. MaxSeries, k \in 0 .. 1}

InitIO ==
    /\ fs = FilenameSet
    /\ self = NoAccessor
    /\ raised = "None"
    /\ calls = << >>
    /\ archive \in SmallArchives
    /\ handles = << >>
    /\ pc = "idle"
    /\ frame = NoFrame
    /\ ret = NoValue
    /\ held = NoValue

\* the construction of the accessor on a root that holds both files
ConstructIO ==
    /\ frame = NoFrame
    /\ ConstructWith({Bands(band_names), Bands(<<"B02">>)}, TransformArgs,
                     {FALSE}, {FALSE}, {Unreached})

\* another program replaces the archive file between two calls
ArchiveReplaced ==
    /\ pc = "idle"
    /\ archive' \in SmallArchives \ {archive}
    /\ UNCHANGED <<fs, self, raised, calls, handles, pc, frame, ret, held>>

NextIO ==
    \/ ConstructIO
    \/ ArchiveReplaced
    \/ LenCall
    \/ LenOpen
    \/ LenRead
    \/ LenExit
    \/ GetItem
    \/ ImageOpen
    \/ ImageRead
    \/ ImageExit
    \/ TargetOpen
    \/ TargetRead
    \/ TargetExit

SpecIO == InitIO /\ [][NextIO]_vars

(* ------------------- properties of the archive accesses ---------------- *)
\* every open handle is read-only, at most one is open, none between calls
HandlesScoped ==
    /\ Len(handles) <= 1
    /\ \A i \in 1 .. Len(handles) : handles[i] = "r"
    /\ pc = "idle" => handles = << >>

\* a step that changes the archive is no step of the accessor: it happens
\* between calls and changes nothing else
ArchiveOnlyReplaced ==
    archive' # archive =>
        /\ pc = "idle"
        /\ UNCHANGED <<fs, self, raised, calls, handles, pc, frame, ret, held>>

\* __len__ returns the first-dimension size of data as it is at the call
LenReturnsSize ==
    pc = "len_exit" => (ret' = Len(archive.data) /\ raised' = "None")

\* C10: over any sequence of length and read calls every archive open is
\* read-only and closed before the call returns or raises (also when the
\* read inside fails), so no handle is held between calls and at most one is
\* open; the accessor never changes the archive; length returns the
\* first-dimension size of data at the time of the call.
C10_ArchiveOpenedReadOnlyAndClosed ==
    /\ []HandlesScoped
    /\ [][ArchiveOnlyReplaced /\ LenReturnsSize]_vars

\* a read whose index is past the archive has raised, and no handle is open
C10_Witness ==
    /\ pc = "idle"
    /\ frame.call = "__getitem__"
    /\ raised = "IndexError"
    /\ handles = << >>
    /\ frame.index >= Len(archive.data)

(* --------------------------------- plot -------------------------------- *)
\* torch.argmax(t, dim=0): at every pixel the first plane that holds the
\* maximum; over zero planes there is nothing to reduce (IndexError)
argmax0(t) ==
    IF t.shape[1] = 0
    THEN [raised |-> "IndexError"]
    ELSE [raised |-> "None",
          value |-> [shape |-> <<t.shape[2], t.shape[3]>>,
                     at |-> [p \in Idx(<<t.shape[2], t.shape[3]>>) |->
                               MinOf({b \in Range0(t.shape[1]) :
                                        \A c \in Range0(t.shape[1]) :
                                          t.at[<<c, p[1], p[2]>>] <= t.at[<<b, p[1], p[2]>>]})]]]

\* lines 279-283: sample['image'][time_step, rgb_indices], normalised by
\* percentile_normalization and scaled to uint8; the normalisation is kept
\* as a tag on the selected planes
rgb_image(image, time_step, rgb_indices) ==
    IF time_step >= image.shape[1]
    THEN [raised |-> "IndexError"]
    ELSE [raised |-> "None",
          value |-> [normalized |->
                       [shape |-> <<Len(rgb_indices), image.shape[3], image.shape[4]>>,
                        at |-> [j \in Idx(<<Len(rgb_indices), image.shape[3], image.shape[4]>>) |->
                                  image.at[<<time_step, rgb_indices[j[1] + 1], j[2], j[3]>>]]]]]

\* one panel of the figure: imshow, axis('off') and the optional title
panel(shown, title, show_titles) ==
    [imshow |-> shown, axis |-> "off", title |-> IF show_titles THEN title ELSE "None"]

\* lines 271-311
plot(obj, sample, time_step, show_titles, suptitle) ==
    IF \E i \in 1 .. Len(rgb_bands) : rgb_bands[i] \notin SeqRange(obj.bands)
    THEN [raised |-> "RGBBandsMissingError"]
    ELSE
    LET rgb_indices == [i \in 1 .. Len(rgb_bands) |-> index(obj.bands, rgb_bands[i])]
        image == rgb_image(sample.image, time_step, rgb_indices)
        mask == argmax0(sample.mask)
        has_prediction == "prediction" \in DOMAIN sample
        preds == IF has_prediction THEN argmax0(sample.prediction) ELSE [raised |-> "None"]
        ncols == IF has_prediction THEN 3 ELSE 2
    IN  IF image.raised # "None" THEN [raised |-> image.raised]
        ELSE IF mask.raised # "None" THEN [raised |-> mask.raised]
        ELSE IF preds.raised # "None" THEN [raised |-> preds.raised]
        ELSE [raised |-> "None",
              ncols |-> ncols,
              axs |-> <<panel(image.value, "Image", show_titles),
                        panel(mask.value, "Mask", show_titles)>>
                      \o (IF has_prediction
                          THEN <<panel(preds.value, "Prediction", show_titles)>>
                          ELSE << >>),
              suptitle |-> suptitle]

(* ------------------ specification of the plotting ---------------------- *)
\* the band selections plotted: the RGB bands and one other band
PlotBandArgs == {Bands(q) : q \in SeqsUpTo(SeqRange(rgb_bands) \cup {"NIR"}, MaxBands + 1)}

\* the height and width of the plotted series
PlotShape == <<1, 2>>

InitPlot ==
    /\ fs = FilenameSet
    /\ self = NoAccessor
    /\ raised = "None"
    /\ calls = << >>
    /\ \E gi \in Arrays(<<PlotShape[1], PlotShape[2], 1>>, 0 .. MaxId) :
         archive = [data |-> <<DataArray(0, 1, PlotShape[1], PlotShape[2])>>,
                    gt |-> <<[shape |-> <<PlotShape[1], PlotShape[2], 1>>,
                              at |-> [i \in Idx(<<PlotShape[1], PlotShape[2], 1>>) |-> 0]]>>,
                    gt_instance |-> <<gi>>]
    /\ handles = << >>
    /\ pc = "idle"
    /\ frame = NoFrame
    /\ ret = NoValue
    /\ held = NoValue

\* the construction of the accessor on a root that holds both files
ConstructPlot ==
    /\ frame = NoFrame
    /\ ConstructWith(PlotBandArgs, {"None"}, {FALSE}, {FALSE}, {Unreached})

\* the caller keeps the sample the last read returned
KeepSample ==
    /\ pc = "idle"
    /\ frame.call = "__getitem__"
    /\ raised = "None"
    /\ held = NoValue
    /\ held' = ret
    /\ UNCHANGED <<fs, self, raised, calls, archive, handles, pc, frame, ret>>

\* the caller attaches a prediction of one plane to the sample it keeps
AttachPrediction ==
    /\ pc = "idle"
    /\ held # NoValue
    /\ "prediction" \notin DOMAIN held
    /\ \E pred \in Arrays(<<1, held.image.shape[3], held.image.shape[4]>>, 0 .. 1) :
         held' = [image |-> held.image, mask |-> held.mask,
                  bbox_xyxy |-> held.bbox_xyxy, label |-> held.label,
                  prediction |-> pred]
    /\ UNCHANGED <<fs, self, raised, calls, archive, handles, pc, frame, ret>>

\* dataset.plot(sample, time_step, show_titles, suptitle)
Plot ==
    /\ pc = "idle"
    /\ self # NoAccessor
    /\ held # NoValue
    /\ \E time_step \in 0 .. 1, show_titles \in BOOLEAN, suptitle \in {"None", "title"} :
         LET r == plot(self, held, time_step, show_titles, suptitle)
         IN  /\ raised' = r.raised
             /\ ret' = IF r.raised = "None" THEN r ELSE NoValue
             /\ frame' = [call |-> "plot", sample |-> held, time_step |-> time_step,
                          show_titles |-> show_titles, suptitle |-> suptitle]
    /\ UNCHANGED <<fs, self, calls, archive, handles, pc, held>>

NextPlot ==
    \/ ConstructPlot
    \/ GetItem
    \/ ImageOpen
    \/ ImageRead
    \/ ImageExit
    \/ TargetOpen
    \/ TargetRead
    \/ TargetExit
    \/ KeepSample
    \/ AttachPrediction
    \/ Plot

SpecPlot == InitPlot /\ [][NextPlot]_vars

(* ----------------------- properties of the plotting -------------------- *)
\* every RGB band is among the bands of the accessor
HasRGB == \A i \in 1 .. Len(rgb_bands) : rgb_bands[i] \in SeqRange(self.bands)

\* C8: plot raises RGBBandsMissingError, with no figure, whenever the bands
\* of the accessor lack an RGB band; when they hold all three, plot (at a
\* time step of the sample) succeeds with 2 panels for a sample without a
\* 'prediction' key and 3 panels for one with it; the sample is unchanged.
C8_PlotSucceedsWithRGB ==
    frame.call = "plot" =>
        /\ held = frame.sample
        /\ ~HasRGB => (raised = "RGBBandsMissingError" /\ ret = NoValue)
        /\ (HasRGB /\ frame.time_step < frame.sample.image.shape[1]) =>
             /\ raised = "None"
             /\ ret.ncols = (IF "prediction" \in DOMAIN frame.sample THEN 3 ELSE 2)
             /\ Len(ret.axs) = ret.ncols

====
